---- MODULE Spec2Model ----
(***************************************************************************)
(* A model of upload_today_to_youtube.py: the daily run main() that        *)
(* derives up to max_daily_uploads jobs, fetches each from the object      *)
(* store (download_video_to_temp) and submits it to the video platform     *)
(* (upload_one_video).                                                     *)
(*                                                                         *)
(* Python str values are TLA+ strings; TLC evaluates Len, \o, SubSeq,      *)
(* Head and Tail on them.  An Optional value is None (<<>>) or Some(v)     *)
(* (<<v>>).  A local of main() that is not yet bound holds the empty value *)
(* of its type.  os.environ is a function whose DOMAIN is the set of the   *)
(* variables that are present.  The remote collaborators (the object       *)
(* store and the platform) are inputs: each call draws its outcome with \E.*)
(***************************************************************************)
EXTENDS Integers, Sequences, FiniteSets, TLC

VARIABLES
    pc,                 \* position of main(): start, for, try, upload, end, done, raised
    environ,            \* os.environ
    clock,              \* the UTC calendar date datetime.utcnow() reads
    today,
    base_url,
    prefix,
    title_prefix,
    description,
    category_id,
    privacy_status,
    made_for_kids,
    altered_content,
    max_daily_uploads,
    youtube,            \* the client handle built once per run
    uploaded_any,
    index,
    filename,
    title,
    video_url,
    temp_path,
    stdout,             \* the sequence of print() calls
    jobs,               \* history: the jobs derived by the loop, in order
    calls,              \* history: the Fetcher and Uploader calls, in order
    scratch,            \* the temporary files created and never removed
    raised              \* the exception that escaped main(), if any

vars == <<pc, environ, clock, today, base_url, prefix, title_prefix,
          description, category_id, privacy_status, made_for_kids,
          altered_content, max_daily_uploads, youtube, uploaded_any, index,
          filename, title, video_url, temp_path, stdout, jobs, calls,
          scratch, raised>>

config == <<today, base_url, prefix, title_prefix, description, category_id,
            privacy_status, made_for_kids, altered_content,
            max_daily_uploads, youtube>>

job == <<index, filename, title, video_url>>

-----------------------------------------------------------------------------
(* Bounds *)

MaxUploads == 3         \* largest YT_MAX_DAILY_UPLOADS value drawn
MaxSlashes == 2         \* most '/' put before or after a drawn URL part

-----------------------------------------------------------------------------
(* Python values *)

None == <<>>

Some(v) == <<v>>

-----------------------------------------------------------------------------
(* str methods and conversions *)

RECURSIVE rstrip(_, _)
rstrip(s, c) ==
    IF Len(s) > 0 /\ SubSeq(s, Len(s), Len(s)) = c
    THEN rstrip(SubSeq(s, 1, Len(s) - 1), c)
    ELSE s

RECURSIVE lstrip(_, _)
lstrip(s, c) ==
    IF Len(s) > 0 /\ Head(s) = c THEN lstrip(Tail(s), c) ELSE s

strip(s, c) == lstrip(rstrip(s, c), c)

UpperCase == "ABCDEFGHIJKLMNOPQRSTUVWXYZ"

LowerCase == "abcdefghijklmnopqrstuvwxyz"

LowerChar(ch) ==
    IF \E k \in 1..26 : SubSeq(UpperCase, k, k) = ch
    THEN LET k == CHOOSE k \in 1..26 : SubSeq(UpperCase, k, k) = ch
         IN  SubSeq(LowerCase, k, k)
    ELSE ch

RECURSIVE lower(_)
lower(s) == IF s = "" THEN "" ELSE LowerChar(Head(s)) \o lower(Tail(s))

Digits == "0123456789"

DigitChar(d) == SubSeq(Digits, d + 1, d + 1)

IsDigit(ch) == \E d \in 0..9 : DigitChar(d) = ch

DigitVal(ch) == CHOOSE d \in 0..9 : DigitChar(d) = ch

\* str(n) and the {n} of an f-string, for an int
RECURSIVE str(_)
str(n) ==
    IF n < 0 THEN "-" \o str(0 - n)
    ELSE IF n < 10 THEN DigitChar(n)
    ELSE str(n \div 10) \o DigitChar(n % 10)

\* %Y, %m, %d: zero-padded to width w
RECURSIVE ZeroPad(_, _)
ZeroPad(s, w) == IF Len(s) >= w THEN s ELSE ZeroPad("0" \o s, w)

strftime(d) ==
    ZeroPad(str(d.year), 4) \o "-" \o ZeroPad(str(d.month), 2)
        \o "-" \o ZeroPad(str(d.day), 2)

AllDigits(s) == \A k \in 1..Len(s) : IsDigit(SubSeq(s, k, k))

RECURSIVE DigitsVal(_)
DigitsVal(s) ==
    IF s = "" THEN 0
    ELSE 10 * DigitsVal(SubSeq(s, 1, Len(s) - 1))
            + DigitVal(SubSeq(s, Len(s), Len(s)))

\* int(text): surrounding blanks, an optional sign, then decimal digits;
\* anything else is a ValueError
int(text) ==
    LET t    == strip(text, " ")
        sign == IF t # "" /\ Head(t) \in {"+", "-"} THEN Head(t) ELSE ""
        body == IF sign = "" THEN t ELSE Tail(t)
    IN  IF body # "" /\ AllDigits(body)
        THEN [exc |-> None,
              ret |-> IF sign = "-" THEN 0 - DigitsVal(body) ELSE DigitsVal(body)]
        ELSE [exc |-> Some("ValueError"), ret |-> 0]

-----------------------------------------------------------------------------
(* Configuration Loader *)

getenv(env, name, default) == IF name \in DOMAIN env THEN env[name] ELSE default

env_bool(env, name, default) ==
    IF name \notin DOMAIN env
    THEN default
    ELSE lower(env[name]) \in {"1", "true", "yes", "y"}

env_int(env, name, default) ==
    LET r == int(getenv(env, name, str(default)))
    IN  IF r.exc # None THEN default ELSE r.ret

-----------------------------------------------------------------------------
(* Inputs: the environment, the clock, and what the remote ends answer *)

RECURSIVE Slashes(_)
Slashes(n) == IF n <= 0 THEN "" ELSE "/" \o Slashes(n - 1)

Padded(core) ==
    { Slashes(a) \o core \o Slashes(b) : a, b \in 0..MaxSlashes }

Names ==
    {"R2_BASE_URL", "R2_PREFIX_PATH", "YT_REFRESH_TOKEN", "YT_CLIENT_ID",
     "YT_CLIENT_SECRET", "YT_TITLE_PREFIX", "YT_DESCRIPTION",
     "YT_MADE_FOR_KIDS", "YT_ALTERED_CONTENT", "YT_MAX_DAILY_UPLOADS"}

Dates == { [year |-> 2024, month |-> 3, day |-> 1],
           [year |-> 987, month |-> 12, day |-> 31] }

\* what a run may find under a name: None when the variable is absent.
\* urls = FALSE draws the runs (which variables are present, how many jobs);
\* urls = TRUE draws the spellings of the two URL parts.
Choices(name, urls) ==
    CASE name = "R2_BASE_URL" ->
            IF urls THEN { Some(v) : v \in Padded("http://h") }
                    ELSE { None, Some("http://h/") }
      [] name = "R2_PREFIX_PATH" ->
            IF urls THEN { Some(v) : v \in Padded("a/b") \cup {"/"} }
                    ELSE { None, Some("/v/") }
      [] name = "YT_REFRESH_TOKEN" -> IF urls THEN {Some("rt")} ELSE {None, Some("rt")}
      [] name = "YT_CLIENT_ID" -> IF urls THEN {Some("cid")} ELSE {None, Some("cid")}
      [] name = "YT_CLIENT_SECRET" -> IF urls THEN {Some("cs")} ELSE {None, Some("cs")}
      [] name = "YT_TITLE_PREFIX" -> IF urls THEN {None} ELSE {None, Some("Clip")}
      [] name = "YT_DESCRIPTION" -> IF urls THEN {None} ELSE {None, Some("About")}
      [] name = "YT_MADE_FOR_KIDS" -> IF urls THEN {None} ELSE {None, Some("Yes")}
      [] name = "YT_ALTERED_CONTENT" ->
            IF urls THEN {None} ELSE {None, Some("TRUE"), Some("no")}
      [] name = "YT_MAX_DAILY_UPLOADS" ->
            IF urls THEN {Some("2")}
            ELSE {None, Some("many")} \cup { Some(str(n)) : n \in 0..MaxUploads }

\* every os.environ over the given names
RECURSIVE Environments(_, _)
Environments(names, urls) ==
    IF names = {} THEN { <<>> }
    ELSE LET n    == CHOOSE n \in names : TRUE
             rest == Environments(names \ {n}, urls)
         IN  UNION { { IF c = None THEN e ELSE e @@ (n :> c[1]) :
                       c \in Choices(n, urls) } : e \in rest }

FetchOutcomes ==
    { [error |-> Some("ConnectionError"), status_code |-> 0] } \cup
    { [error |-> None, status_code |-> c] : c \in {200, 404, 500} }

Responses ==
    { [kind |-> "youtube#video", id |-> "vid"], [kind |-> "youtube#video"] }

UploadOutcomes ==
    { [error |-> Some("HttpError"), response |-> [kind |-> "error"]] } \cup
    { [error |-> None, response |-> r] : r \in Responses }

-----------------------------------------------------------------------------
(* Client Factory *)

\* a factory that reads the client secret only when a token is refreshed
build_youtube_client_lazy(env) ==
    IF "YT_REFRESH_TOKEN" \notin DOMAIN env
    THEN [exc |-> Some("KeyError: 'YT_REFRESH_TOKEN'"), ret |-> None]
    ELSE IF "YT_CLIENT_ID" \notin DOMAIN env
    THEN [exc |-> Some("KeyError: 'YT_CLIENT_ID'"), ret |-> None]
    ELSE [exc |-> None,
          ret |-> Some([refresh_token |-> env["YT_REFRESH_TOKEN"],
                        client_id     |-> env["YT_CLIENT_ID"],
                        client_secret |-> getenv(env, "YT_CLIENT_SECRET", ""),
                        scopes |-> <<"https://www.googleapis.com/auth/youtube.upload">>])]

build_youtube_client(env) ==
    IF "YT_REFRESH_TOKEN" \notin DOMAIN env
    THEN [exc |-> Some("KeyError: 'YT_REFRESH_TOKEN'"), ret |-> None]
    ELSE IF "YT_CLIENT_ID" \notin DOMAIN env
    THEN [exc |-> Some("KeyError: 'YT_CLIENT_ID'"), ret |-> None]
    ELSE IF "YT_CLIENT_SECRET" \notin DOMAIN env
    THEN [exc |-> Some("KeyError: 'YT_CLIENT_SECRET'"), ret |-> None]
    ELSE [exc |-> None,
          ret |-> Some([refresh_token |-> env["YT_REFRESH_TOKEN"],
                        client_id     |-> env["YT_CLIENT_ID"],
                        client_secret |-> env["YT_CLIENT_SECRET"],
                        scopes |-> <<"https://www.googleapis.com/auth/youtube.upload">>])]

-----------------------------------------------------------------------------
(* Fetcher *)

\* the {x} of an f-string, for an Optional[str]
fmt(v) == IF v = None THEN "None" ELSE v[1]

Range(seq) == { seq[k] : k \in 1..Len(seq) }

\* tempfile.NamedTemporaryFile(delete=False, suffix=".mp4"): a fresh name
NamedTemporaryFile(files) == "/tmp/tmp" \o str(Len(files) + 1) \o ".mp4"

\* resp is what requests.get does: it raises, or answers with a status
download_video_to_temp(url, resp, files) ==
    LET line == "Downloading video from " \o url
        name == NamedTemporaryFile(files)
    IN  IF resp.error # None
        THEN [exc |-> resp.error, ret |-> None, out |-> <<line>>, files |-> files]
        ELSE IF resp.status_code = 404
        THEN [exc |-> None, ret |-> None,
              out |-> <<line, "  -> File not found (404), skipping.">>,
              files |-> files]
        ELSE IF resp.status_code >= 400
        THEN [exc |-> Some("HTTPError: " \o str(resp.status_code)), ret |-> None,
              out |-> <<line>>, files |-> files]
        ELSE [exc |-> None, ret |-> Some(name),
              out |-> <<line, "  -> Saved to " \o name>>,
              files |-> Append(files, name)]

-----------------------------------------------------------------------------
(* Uploader *)

Disclosure == "\n\n[Contains AI-generated or edited content]"

\* a metadata document that carries the disclosure whatever the flag says
metadata_always_disclosed(ttl, descr, category, privacy, kids, altered) ==
    [snippet |-> [title |-> ttl, description |-> descr \o Disclosure,
                  categoryId |-> category],
     status |-> [privacyStatus |-> privacy, selfDeclaredMadeForKids |-> kids],
     contentDetails |-> [hasCustomThumbnail |-> FALSE]]

\* the metadata document, lines 70-87
metadata(ttl, descr, category, privacy, kids, altered) ==
    LET snippet(d) == [title |-> ttl, description |-> d, categoryId |-> category]
        status     == [privacyStatus |-> privacy, selfDeclaredMadeForKids |-> kids]
    IN  IF altered
        THEN [snippet |-> snippet(descr \o Disclosure), status |-> status,
              contentDetails |-> [hasCustomThumbnail |-> FALSE]]
        ELSE [snippet |-> snippet(descr), status |-> status]

\* dict.get(key)
get(dict, key) == IF key \in DOMAIN dict THEN Some(dict[key]) ELSE None

\* an Uploader that hands the identifier back: return video_id
on_response_returns_id(response) ==
    LET video_id == get(response, "id")
    IN  [exc |-> None, ret |-> video_id,
         out |-> <<"  -> Uploaded successfully, video id: " \o fmt(video_id)>>]

\* an Uploader that insists on the identifier: response["id"]
on_response_requires_id(response) ==
    IF "id" \in DOMAIN response
    THEN [exc |-> None, ret |-> None,
          out |-> <<"  -> Uploaded successfully, video id: " \o response["id"]>>]
    ELSE [exc |-> Some("KeyError: 'id'"), ret |-> None, out |-> <<>>]

\* lines 103-105: what the call does with the response of request.execute()
on_response(response) ==
    LET video_id == get(response, "id")
    IN  [exc |-> None, ret |-> None,
         out |-> <<"  -> Uploaded successfully, video id: " \o fmt(video_id)>>]

\* remote is what request.execute() does: it raises, or answers
upload_one_video(client, file_path, ttl, descr, category, privacy, kids, altered, remote, files) ==
    LET line == "Uploading " \o fmt(file_path) \o " to YouTube..."
        body == metadata(ttl, descr, category, privacy, kids, altered)
        request == [client |-> client, part |-> "snippet,status",
                    body |-> body, media_body |-> file_path]
    IN  IF file_path = None
        THEN [exc |-> Some("TypeError"), ret |-> None, out |-> <<line>>,
              request |-> None]
        ELSE IF file_path[1] \notin Range(files)
        THEN [exc |-> Some("FileNotFoundError"), ret |-> None, out |-> <<line>>,
              request |-> None]
        ELSE IF remote.error # None
        THEN [exc |-> remote.error, ret |-> None, out |-> <<line>>,
              request |-> Some(request)]
        ELSE LET r == on_response(remote.response)
             IN  [exc |-> r.exc, ret |-> r.ret, out |-> <<line>> \o r.out,
                  request |-> Some(request)]

-----------------------------------------------------------------------------
(* Daily Run Orchestrator: the pieces of main() *)

\* a loader that trims both ends of the base URL: .strip("/")
load_base_url_strip(env) == strip(env["R2_BASE_URL"], "/")

\* line 111
load_base_url(env) == rstrip(env["R2_BASE_URL"], "/")

\* line 112
load_prefix(env) == strip(env["R2_PREFIX_PATH"], "/")

\* a range that also yields max_daily_uploads + 1
range_stop_inclusive(max) == max + 2

\* range(1, max_daily_uploads + 1): its stop value
range_stop(max) == max + 1

\* a filename that leaves the index out
job_filename_unindexed(date, i, max) == date \o ".mp4"

\* lines 127-132
job_filename(date, i, max) ==
    IF max = 1 THEN date \o ".mp4" ELSE date \o "-" \o str(i) \o ".mp4"

job_title(tprefix, date, i, max) ==
    IF max = 1 THEN tprefix \o " - " \o date
    ELSE tprefix \o " - " \o date \o " Part " \o str(i)

\* line 134
job_url(base, pre, fname) == base \o "/" \o pre \o "/" \o fname

\* a loop that goes on to the upload whatever the Fetcher returned
skips_never(temp) == FALSE

\* lines 139-140: if temp_path is None: continue
skips(temp) == temp = None

\* a handler that does not match the exception, which then leaves main()
except_Exception_unmatched(e, fname) == [caught |-> FALSE, out |-> <<>>]

\* lines 153-154: except Exception as e
except_Exception(e, fname) ==
    [caught |-> TRUE, out |-> <<"  -> Error with " \o fname \o ": " \o fmt(e)>>]

Notice == "No files were uploaded today (nothing found in R2)."

\* a summary that ignores the flag
summary_always(flag) == <<Notice>>

\* lines 156-157
summary(flag) == IF ~flag THEN <<Notice>> ELSE <<>>

-----------------------------------------------------------------------------
(* The run *)

InitWith(urls) ==
    /\ pc = "start"
    /\ environ \in Environments(Names, urls)
    /\ clock \in Dates
    /\ today = "" /\ base_url = "" /\ prefix = "" /\ title_prefix = ""
    /\ description = "" /\ category_id = "" /\ privacy_status = ""
    /\ made_for_kids = FALSE /\ altered_content = FALSE
    /\ max_daily_uploads = 0
    /\ youtube = None
    /\ uploaded_any = FALSE
    /\ index = 0
    /\ filename = "" /\ title = "" /\ video_url = ""
    /\ temp_path = None
    /\ stdout = <<>>
    /\ jobs = <<>>
    /\ calls = <<>>
    /\ scratch = <<>>
    /\ raised = None

Init == InitWith(FALSE)

InitUrl == InitWith(TRUE)

\* lines 109-124
Startup ==
    /\ pc = "start"
    /\ today' = strftime(clock)
    /\ UNCHANGED <<environ, clock, uploaded_any, job, temp_path, stdout, jobs,
                   calls, scratch>>
    /\ IF "R2_BASE_URL" \notin DOMAIN environ
       THEN /\ raised' = Some("KeyError: 'R2_BASE_URL'")
            /\ pc' = "raised"
            /\ UNCHANGED <<base_url, prefix, title_prefix, description,
                           category_id, privacy_status, made_for_kids,
                           altered_content, max_daily_uploads, youtube>>
       ELSE IF "R2_PREFIX_PATH" \notin DOMAIN environ
       THEN /\ base_url' = load_base_url(environ)
            /\ raised' = Some("KeyError: 'R2_PREFIX_PATH'")
            /\ pc' = "raised"
            /\ UNCHANGED <<prefix, title_prefix, description, category_id,
                           privacy_status, made_for_kids, altered_content,
                           max_daily_uploads, youtube>>
       ELSE LET c == build_youtube_client(environ)
            IN  /\ base_url' = load_base_url(environ)
                /\ prefix' = load_prefix(environ)
                /\ title_prefix' = getenv(environ, "YT_TITLE_PREFIX", "Daily Video")
                /\ description' = getenv(environ, "YT_DESCRIPTION", "")
                /\ category_id' = getenv(environ, "YT_CATEGORY_ID", "22")
                /\ privacy_status' = getenv(environ, "YT_PRIVACY_STATUS", "public")
                /\ made_for_kids' = env_bool(environ, "YT_MADE_FOR_KIDS", FALSE)
                /\ altered_content' = env_bool(environ, "YT_ALTERED_CONTENT", TRUE)
                /\ max_daily_uploads' = env_int(environ, "YT_MAX_DAILY_UPLOADS", 1)
                /\ youtube' = c.ret
                /\ raised' = c.exc
                /\ pc' = IF c.exc # None THEN "raised" ELSE "for"

\* lines 126-135: the next index of the range, or the end of the loop
ForNext ==
    /\ pc = "for"
    /\ UNCHANGED <<environ, clock, config, uploaded_any, temp_path, calls,
                   scratch, raised>>
    /\ IF index + 1 < range_stop(max_daily_uploads)
       THEN LET i     == index + 1
                fname == job_filename(today, i, max_daily_uploads)
                url   == job_url(base_url, prefix, fname)
            IN  /\ index' = i
                /\ filename' = fname
                /\ title' = job_title(title_prefix, today, i, max_daily_uploads)
                /\ video_url' = url
                /\ jobs' = Append(jobs, [index |-> i, filename |-> fname,
                                        title |-> job_title(title_prefix, today, i,
                                                            max_daily_uploads),
                                        url |-> url])
                /\ stdout' = Append(stdout, "\n=== Checking file: " \o url \o " ===")
                /\ pc' = "try"
       ELSE /\ pc' = "end"
            /\ UNCHANGED <<job, stdout, jobs>>

\* lines 137-140 and 153-154: the Fetcher call of this index
Download ==
    /\ pc = "try"
    /\ UNCHANGED <<environ, clock, config, uploaded_any, job, jobs>>
    /\ \E resp \in FetchOutcomes :
          LET r == download_video_to_temp(video_url, resp, scratch)
              h == except_Exception(r.exc, filename)
          IN  /\ scratch' = r.files
              /\ calls' = Append(calls, [op |-> "fetch", index |-> index,
                                         url |-> video_url, exc |-> r.exc,
                                         ret |-> r.ret])
              /\ IF r.exc # None
                 THEN /\ UNCHANGED temp_path
                      /\ IF h.caught
                         THEN /\ stdout' = stdout \o r.out \o h.out
                              /\ pc' = "for"
                              /\ UNCHANGED raised
                         ELSE /\ stdout' = stdout \o r.out
                              /\ pc' = "raised"
                              /\ raised' = r.exc
                 ELSE /\ temp_path' = r.ret
                      /\ stdout' = stdout \o r.out
                      /\ pc' = IF skips(r.ret) THEN "for" ELSE "upload"
                      /\ UNCHANGED raised

\* lines 142-154: the Uploader call of this index
Upload ==
    /\ pc = "upload"
    /\ UNCHANGED <<environ, clock, config, job, jobs, temp_path, scratch>>
    /\ \E remote \in UploadOutcomes :
          LET r == upload_one_video(youtube, temp_path, title, description,
                                    category_id, privacy_status, made_for_kids,
                                    altered_content, remote, scratch)
              h == except_Exception(r.exc, filename)
          IN  /\ calls' = Append(calls, [op |-> "upload", index |-> index,
                                         file_path |-> temp_path,
                                         request |-> r.request,
                                         response |-> remote.response,
                                         exc |-> r.exc, ret |-> r.ret])
              /\ IF r.exc # None
                 THEN /\ UNCHANGED uploaded_any
                      /\ IF h.caught
                         THEN /\ stdout' = stdout \o r.out \o h.out
                              /\ pc' = "for"
                              /\ UNCHANGED raised
                         ELSE /\ stdout' = stdout \o r.out
                              /\ pc' = "raised"
                              /\ raised' = r.exc
                 ELSE /\ uploaded_any' = TRUE
                      /\ stdout' = stdout \o r.out
                      /\ pc' = "for"
                      /\ UNCHANGED raised

\* lines 156-157
Finish ==
    /\ pc = "end"
    /\ stdout' = stdout \o summary(uploaded_any)
    /\ pc' = "done"
    /\ UNCHANGED <<environ, clock, config, uploaded_any, job, temp_path, jobs,
                   calls, scratch, raised>>

Next == Startup \/ ForNext \/ Download \/ Upload \/ Finish

Spec == Init /\ [][Next]_vars

SpecUrl == InitUrl /\ [][Next]_vars

TypeOK ==
    /\ pc \in {"start", "for", "try", "upload", "end", "done", "raised"}
    /\ uploaded_any \in BOOLEAN
    /\ index \in 0..(MaxUploads + 1)
    /\ Len(scratch) <= MaxUploads + 1

-----------------------------------------------------------------------------
(* Vocabulary of the properties, written from the specification *)

StartsWith(s, p) == Len(s) >= Len(p) /\ SubSeq(s, 1, Len(p)) = p

EndsWith(s, p) == Len(s) >= Len(p) /\ SubSeq(s, Len(s) - Len(p) + 1, Len(s)) = p

Contains(s, t) ==
    \E k \in 1..(Len(s) - Len(t) + 1) : SubSeq(s, k, k + Len(t) - 1) = t

Substrings(s) == { SubSeq(s, a, b) : a \in 1..(Len(s) + 1), b \in 0..Len(s) }

Prefixes(s) == { SubSeq(s, 1, b) : b \in 0..Len(s) }

\* t is raw without its trailing '/' characters
TrailingTrimmed(t, raw) ==
    /\ ~EndsWith(t, "/")
    /\ raw = t \o Slashes(Len(raw) - Len(t))

\* t is raw without its leading and its trailing '/' characters
BothTrimmed(t, raw) ==
    /\ ~EndsWith(t, "/")
    /\ ~StartsWith(t, "/")
    /\ \E m \in 0..(Len(raw) - Len(t)) :
          raw = Slashes(m) \o t \o Slashes(Len(raw) - Len(t) - m)

Calls(op, i) ==
    { k \in 1..Len(calls) : calls[k].op = op /\ calls[k].index = i }

CallsOf(op) == { k \in 1..Len(calls) : calls[k].op = op }

Lines(text) == { l \in 1..Len(stdout) : stdout[l] = text }

\* the filename the specification gives index i of a run of n jobs
SpecFilename(i, n) ==
    IF n = 1 THEN today \o ".mp4" ELSE today \o "-" \o ToString(i) \o ".mp4"

ErrorLines(i) ==
    { l \in 1..Len(stdout) :
        /\ StartsWith(stdout[l], "  -> Error with ")
        /\ Contains(stdout[l], SpecFilename(i, max_daily_uploads)) }

LoopStarted == youtube # None

Finished == pc \in {"end", "done"}

Succeeded(k) == calls[k].op = "upload" /\ calls[k].exc = None

NotFound(k) == calls[k].op = "fetch" /\ calls[k].exc = None /\ calls[k].ret = None

-----------------------------------------------------------------------------
(* C1: failure isolation is per job.  An exception of the Fetcher or the   *)
(* Uploader for index i is caught in that iteration, a log line naming the *)
(* filename of index i is printed, every later index is still fetched, and *)
(* main() never raises once the loop has started.                          *)
C1_FailureIsolation ==
    /\ LoopStarted => (raised = None /\ pc # "raised")
    /\ \A k \in 1..Len(calls) :
          calls[k].exc # None =>
             /\ ErrorLines(calls[k].index) # {}
             /\ pc \notin {"try", "upload"} \/ index > calls[k].index
             /\ Finished =>
                   \A j \in (calls[k].index + 1)..max_daily_uploads :
                       Calls("fetch", j) # {}

C1_Witness ==
    /\ pc = "done"
    /\ max_daily_uploads = 3
    /\ calls[1].op = "fetch" /\ calls[1].exc # None
    /\ \E k \in Calls("upload", 2) : calls[k].exc # None
    /\ \E k \in Calls("upload", 3) : calls[k].exc = None

(* C2: when the Fetcher returns NotFound for index i the Uploader is never *)
(* called for index i, and that iteration leaves the 'uploaded anything'   *)
(* flag as it was.                                                         *)
C2_NoUploadAfterNotFound ==
    /\ [](\A k \in 1..Len(calls) :
              NotFound(k) => Calls("upload", calls[k].index) = {})
    /\ [][ (/\ Len(calls') = Len(calls) + 1
            /\ calls'[Len(calls')].op = "fetch"
            /\ calls'[Len(calls')].exc = None
            /\ calls'[Len(calls')].ret = None)
           => (uploaded_any' = uploaded_any /\ pc' = "for") ]_vars

C2_Witness ==
    /\ pc = "done"
    /\ uploaded_any
    /\ \E k \in Calls("fetch", 2) : NotFound(k)
    /\ Calls("upload", 1) # {}
    /\ Calls("upload", 3) # {}

(* C3: the 'nothing uploaded' notice is printed exactly once at the end of *)
(* a run in which no Uploader call returned, never in a run in which one   *)
(* did, and never before the last index has been processed.                *)
C3_NoticeOnce ==
    /\ pc # "done" => Lines(Notice) = {}
    /\ pc = "done" =>
          Cardinality(Lines(Notice)) =
              IF \E k \in 1..Len(calls) : Succeeded(k) THEN 0 ELSE 1
    /\ Lines(Notice) # {} =>
          \A i \in 1..max_daily_uploads : Calls("fetch", i) # {}

C3_Witness ==
    /\ pc = "done"
    /\ max_daily_uploads = 3
    /\ Lines(Notice) # {}
    /\ \E k \in Calls("fetch", 1) : NotFound(k)
    /\ \E k \in Calls("fetch", 2) : calls[k].exc # None
    /\ \E k \in Calls("upload", 3) : calls[k].exc # None

(* C4: job derivation.  A run of one job derives the filename              *)
(* '{date}.mp4' and the title '{titlePrefix} - {date}'; a run of N > 1     *)
(* jobs derives N jobs, index 1..N in increasing order, with filename      *)
(* '{date}-{i}.mp4' and a title containing 'Part {i}'; no two jobs of a    *)
(* run share a filename.                                                   *)
C4_JobDerivation ==
    LET N  == max_daily_uploads
        tp == IF "YT_TITLE_PREFIX" \in DOMAIN environ
              THEN environ["YT_TITLE_PREFIX"] ELSE "Daily Video"
    IN  /\ Len(jobs) <= (IF N > 0 THEN N ELSE 0)
        /\ Finished => Len(jobs) = (IF N > 0 THEN N ELSE 0)
        /\ \A i \in 1..Len(jobs) :
              /\ jobs[i].index = i
              /\ N = 1 => /\ jobs[i].filename = today \o ".mp4"
                          /\ jobs[i].title = tp \o " - " \o today
              /\ N > 1 => /\ jobs[i].filename = today \o "-" \o ToString(i) \o ".mp4"
                          /\ StartsWith(jobs[i].title, tp \o " - " \o today)
                          /\ Contains(jobs[i].title, "Part " \o ToString(i))
        /\ \A i, j \in 1..Len(jobs) :
              i # j => jobs[i].filename # jobs[j].filename

C4_Witness ==
    /\ pc = "done"
    /\ Len(jobs) = 3
    /\ jobs[3].filename = "0987-12-31-3.mp4"
    /\ jobs[2].title = "Clip - 0987-12-31 Part 2"

(* C5: a missing required variable is fatal at startup: the run fails      *)
(* before the loop, so it makes no Fetcher call and no Uploader call.      *)
C5_StartupFatal ==
    (\E n \in {"R2_BASE_URL", "R2_PREFIX_PATH", "YT_REFRESH_TOKEN",
               "YT_CLIENT_ID", "YT_CLIENT_SECRET"} : n \notin DOMAIN environ)
    => /\ pc \in {"start", "raised"}
       /\ calls = <<>>
       /\ jobs = <<>>
       /\ pc # "start" => raised # None

C5_Witness ==
    /\ pc = "raised"
    /\ {"R2_BASE_URL", "R2_PREFIX_PATH", "YT_REFRESH_TOKEN", "YT_CLIENT_ID",
        "YT_MAX_DAILY_UPLOADS"} \subseteq DOMAIN environ
    /\ "YT_CLIENT_SECRET" \notin DOMAIN environ

(* C6: the description the Uploader submits is the configured description  *)
(* followed by the disclosure when alteredContent is true, and the         *)
(* configured description unchanged when it is false, for every job of a   *)
(* run.                                                                    *)
C6_Description ==
    LET orig == IF "YT_DESCRIPTION" \in DOMAIN environ
                THEN environ["YT_DESCRIPTION"] ELSE ""
    IN  \A k \in CallsOf("upload") :
            calls[k].request # None =>
                calls[k].request[1].body.snippet.description =
                    IF altered_content
                    THEN orig \o "\n\n[Contains AI-generated or edited content]"
                    ELSE orig

C6_Witness ==
    /\ altered_content
    /\ description = "About"
    /\ \E k \in Calls("upload", 1) : calls[k].request # None
    /\ \E k \in Calls("upload", 3) : calls[k].request # None

(* C7 as stated: the URL fetched for a job is                             *)
(* '{baseUrl}/{prefix}/{filename}' where baseUrl and prefix have both had  *)
(* all their leading and all their trailing '/' removed.                   *)
C7_UrlBothTrimmed ==
    LET b == CHOOSE t \in Substrings(environ["R2_BASE_URL"]) :
                 BothTrimmed(t, environ["R2_BASE_URL"])
        p == CHOOSE t \in Substrings(environ["R2_PREFIX_PATH"]) :
                 BothTrimmed(t, environ["R2_PREFIX_PATH"])
    IN  \A k \in CallsOf("fetch") :
            calls[k].url =
               b \o "/" \o p \o "/" \o SpecFilename(calls[k].index, max_daily_uploads)

(* C7 amended: the URL fetched for a job is                                *)
(* '{baseUrl}/{prefix}/{filename}' where baseUrl has had all its trailing  *)
(* '/' removed and keeps its leading ones, and prefix has had all its      *)
(* leading and all its trailing '/' removed.                               *)
C7_UrlTrimmed ==
    LET b == CHOOSE t \in Prefixes(environ["R2_BASE_URL"]) :
                 TrailingTrimmed(t, environ["R2_BASE_URL"])
        p == CHOOSE t \in Substrings(environ["R2_PREFIX_PATH"]) :
                 BothTrimmed(t, environ["R2_PREFIX_PATH"])
    IN  \A k \in CallsOf("fetch") :
            calls[k].url =
               b \o "/" \o p \o "/" \o SpecFilename(calls[k].index, max_daily_uploads)

C7_Witness ==
    /\ environ["R2_BASE_URL"] = "/http://h//"
    /\ environ["R2_PREFIX_PATH"] = "//a/b/"
    /\ Calls("fetch", 2) # {}
    /\ calls[1].url = "/http://h/a/b/2024-03-01-1.mp4"

(* C8 as stated: on a successful insert call the Uploader returns to its   *)
(* caller the identifier found in the response's 'id' field.               *)
C8_ReturnsId ==
    \A k \in CallsOf("upload") :
        (calls[k].exc = None /\ "id" \in DOMAIN calls[k].response)
            => calls[k].ret = Some(calls[k].response.id)

(* C8 amended: on a successful insert call the Uploader prints the         *)
(* identifier found in the response's 'id' field in its success line and   *)
(* returns None to its caller.                                             *)
C8_LogsId ==
    /\ \A k \in CallsOf("upload") :
          (calls[k].exc = None /\ "id" \in DOMAIN calls[k].response)
             => /\ calls[k].ret = None
                /\ Lines("  -> Uploaded successfully, video id: "
                             \o calls[k].response.id) # {}
    /\ Cardinality(Lines("  -> Uploaded successfully, video id: vid")) =
          Cardinality({ k \in CallsOf("upload") :
                          calls[k].exc = None /\ "id" \in DOMAIN calls[k].response })

C8_Witness ==
    /\ pc = "done"
    /\ \E k \in Calls("upload", 1) :
          calls[k].exc = None /\ "id" \in DOMAIN calls[k].response
    /\ \E k \in Calls("upload", 2) :
          calls[k].exc = None /\ "id" \in DOMAIN calls[k].response

(* C9: a successful response that carries no identifier is tolerated: the  *)
(* Uploader does not raise, the job counts as uploaded (the flag is true)  *)
(* and no error line is printed for it.                                    *)
C9_MissingIdTolerated ==
    \A k \in CallsOf("upload") :
        (/\ calls[k].request # None
         /\ calls[k].response \in Responses
         /\ "id" \notin DOMAIN calls[k].response)
        => /\ calls[k].exc = None
           /\ uploaded_any
           /\ ErrorLines(calls[k].index) = {}
           /\ Lines("  -> Uploaded successfully, video id: None") # {}

C9_Witness ==
    /\ pc = "done"
    /\ Cardinality(CallsOf("upload")) = 1
    /\ \E k \in Calls("upload", 2) :
          /\ calls[k].request # None
          /\ calls[k].exc = None
          /\ "id" \notin DOMAIN calls[k].response

(* C10: the jobs run in sequence without retries.  Each index of 1..N is   *)
(* fetched at most once and uploaded at most once, the Uploader is called  *)
(* for an index only after the Fetcher returned a path for it, the fetch   *)
(* of index i+1 follows every call of index i, and a run makes at most N   *)
(* Fetcher calls and at most N Uploader calls.                             *)
C10_Sequential ==
    LET N == IF max_daily_uploads > 0 THEN max_daily_uploads ELSE 0
    IN  /\ \A k \in 1..Len(calls) : calls[k].index \in 1..N
        /\ \A i \in 1..N :
              /\ Cardinality(Calls("fetch", i)) <= 1
              /\ Cardinality(Calls("upload", i)) <= 1
        /\ \A k \in CallsOf("upload") :
              /\ k > 1
              /\ calls[k - 1].op = "fetch"
              /\ calls[k - 1].index = calls[k].index
              /\ calls[k - 1].exc = None
              /\ calls[k - 1].ret # None
              /\ calls[k].file_path = calls[k - 1].ret
        /\ \A k, l \in 1..Len(calls) :
              k < l => calls[k].index <= calls[l].index
        /\ Cardinality(CallsOf("fetch")) <= N
        /\ Cardinality(CallsOf("upload")) <= N
        /\ (pc = "try" \/ pc = "upload") =>
              \A k \in 1..Len(calls) :
                  calls[k].index < index \/ (pc = "upload" /\ k = Len(calls))
        /\ Finished => \A i \in 1..N : Cardinality(Calls("fetch", i)) = 1

C10_Witness ==
    /\ pc = "done"
    /\ max_daily_uploads = 3
    /\ Cardinality(CallsOf("fetch")) = 3
    /\ Cardinality(CallsOf("upload")) = 3
    /\ \E k \in Calls("upload", 2) : calls[k].exc # None

====
